---- MODULE Spec2Model ----
(***************************************************************************)
(* astroquery.vo: the Registry TAP client.                                 *)
(*                                                                         *)
(*   src/astroquery/vo/__init__.py   Conf.registry_tap_url, conf           *)
(*   src/astroquery/vo/core.py       RegistryClass (query, _build_adql,    *)
(*                                   _astropy_table_from_votable_response) *)
(*                                   and the module-level Registry object  *)
(*                                                                         *)
(* Python strings are modelled as sequences of one-character strings, so   *)
(* that lower(), "in", join() and format() are computed character by       *)
(* character and not assumed.                                              *)
(***************************************************************************)
EXTENDS Integers, Sequences, FiniteSets, TLC

VARIABLES
    conf_url,    \* the value conf.registry_tap_url holds now
    sync_url,    \* object -> its _REGISTRY_TAP_SYNC_URL (objects constructed so far)
    pc,          \* where the running call stands
    self,        \* the object the running call was made on
    kwargs,      \* the keyword arguments of the running call
    adql,        \* the local adql of query(), the value of _build_adql
    posts,       \* the POST requests sent during the running call
    outcome,     \* how the POST of the running call ended
    trace,       \* the steps the running call has performed, in order
    result,      \* what the running call hands to its caller
    ncalls       \* query calls made so far

vars == <<conf_url, sync_url, pc, self, kwargs, adql, posts, outcome, trace, result, ncalls>>

----------------------------------------------------------------------------
(* String literals of the source.                                          *)

\* Conf.registry_tap_url default, __init__.py:17
DefaultUrl ==
    <<"h", "t", "t", "p", "s", ":", "/", "/", "v", "a", "o", ".", "s", "t", "s", "c", "i", ".",
      "e", "d", "u", "/", "R", "e", "g", "T", "A", "P", "/", "T", "a", "p", "S", "e", "r", "v",
      "i", "c", "e", ".", "a", "s", "p", "x">>

\* core.py:77
sync_suffix ==
    <<"/", "s", "y", "n", "c">>

\* core.py:118
default_logic_string ==
    <<" ", "a", "n", "d", " ">>

\* core.py:136
str_image ==
    <<"i", "m", "a", "g", "e">>

\* core.py:138
str_spectr ==
    <<"s", "p", "e", "c", "t", "r">>

\* core.py:140
str_cone ==
    <<"c", "o", "n", "e">>

\* core.py:137
simpleimageaccess ==
    <<"s", "i", "m", "p", "l", "e", "i", "m", "a", "g", "e", "a", "c", "c", "e", "s", "s">>

\* core.py:139
simplespectralaccess ==
    <<"s", "i", "m", "p", "l", "e", "s", "p", "e", "c", "t", "r", "a", "l", "a", "c", "c", "e",
      "s", "s">>

\* core.py:141
simpleconesearch ==
    <<"s", "i", "m", "p", "l", "e", "c", "o", "n", "e", "s", "e", "a", "r", "c", "h">>

\* core.py:144-148
query_retcols ==
    <<"\n", " ", " ", " ", " ", " ", " ", " ", " ", " ", " ", "s", "e", "l", "e", "c", "t",
      " ", "r", "e", "s", ".", "s", "h", "o", "r", "t", "_", "n", "a", "m", "e", ",", "c", "a",
      "p", ".", "i", "v", "o", "i", "d", "\n", " ", " ", " ", " ", " ", " ", " ", " ", " ",
      " ", " ", "f", "r", "o", "m", " ", "r", "r", ".", "c", "a", "p", "a", "b", "i", "l", "i",
      "t", "y", " ", "c", "a", "p", "\n", " ", " ", " ", " ", " ", " ", " ", " ", " ", " ",
      " ", "n", "a", "t", "u", "r", "a", "l", " ", "j", "o", "i", "n", " ", "r", "r", ".", "r",
      "e", "s", "o", "u", "r", "c", "e", " ", "r", "e", "s", "\n", " ", " ", " ", " ", " ",
      " ", " ", " ", " ", " ", " ">>

\* core.py:150
str_where ==
    <<"w", "h", "e", "r", "e", " ">>

\* core.py:154, the text before {}
cap_type_open ==
    <<"c", "a", "p", ".", "c", "a", "p", "_", "t", "y", "p", "e", "=", "'">>

\* core.py:154, the text after {}
cap_type_close ==
    <<"'">>

\* core.py:156, the text before {}
ivoid_open ==
    <<"c", "a", "p", ".", "i", "v", "o", "i", "d", " ", "l", "i", "k", "e", " ", "'", "%">>

\* core.py:156, the text after {}
ivoid_close ==
    <<"%", "'">>

\* core.py:161, the text before {}
str_order_by ==
    <<"o", "r", "d", "e", "r", " ", "b", "y", " ">>

----------------------------------------------------------------------------
(* Python string operations.                                               *)

\* str.lower() on one character (ASCII letters)
LowerChar(c) ==
    CASE c = "A" -> "a" [] c = "B" -> "b" [] c = "C" -> "c" [] c = "D" -> "d"
      [] c = "E" -> "e" [] c = "F" -> "f" [] c = "G" -> "g" [] c = "H" -> "h"
      [] c = "I" -> "i" [] c = "J" -> "j" [] c = "K" -> "k" [] c = "L" -> "l"
      [] c = "M" -> "m" [] c = "N" -> "n" [] c = "O" -> "o" [] c = "P" -> "p"
      [] c = "Q" -> "q" [] c = "R" -> "r" [] c = "S" -> "s" [] c = "T" -> "t"
      [] c = "U" -> "u" [] c = "V" -> "v" [] c = "W" -> "w" [] c = "X" -> "x"
      [] c = "Y" -> "y" [] c = "Z" -> "z" [] OTHER -> c

\* s.lower()
lower(s) == [i \in 1..Len(s) |-> LowerChar(s[i])]

\* p in s
In(p, s) == \E i \in 1..(Len(s) - Len(p) + 1) : SubSeq(s, i, i + Len(p) - 1) = p

\* sep.join(list)
RECURSIVE join(_, _)
join(sep, list) ==
    IF list = <<>> THEN <<>>
    ELSE IF Len(list) = 1 THEN list[1]
    ELSE list[1] \o sep \o join(sep, Tail(list))

----------------------------------------------------------------------------
(* RegistryClass._build_adql, core.py:110-166.                             *)

\* kwargs is a Python dict: a function from the keys passed to their values.
\* The value a key was passed with, or the default of core.py:113-118.
Arg(kw, key, default) == IF key \in DOMAIN kw THEN kw[key] ELSE default

\* A plausible slip in the elif chain: the keyword branch assigns source.
ParseKwargsKeywordAsSource(kw) ==
    [service_type |-> Arg(kw, "service_type", <<>>),
     keyword      |-> <<>>,
     waveband     |-> Arg(kw, "waveband", <<>>),
     source       |-> Arg(kw, "source", Arg(kw, "keyword", <<>>)),
     order_by     |-> Arg(kw, "order_by", <<>>),
     logic_string |-> Arg(kw, "logic_string", default_logic_string)]

\* core.py:112-133: the defaults, then the loop over kwargs.items(); each key
\* occurs once in a dict, and a key that no branch names changes nothing.
ParseKwargs(kw) ==
    [service_type |-> Arg(kw, "service_type", <<>>),
     keyword      |-> Arg(kw, "keyword", <<>>),
     waveband     |-> Arg(kw, "waveband", <<>>),
     source       |-> Arg(kw, "source", <<>>),
     order_by     |-> Arg(kw, "order_by", <<>>),
     logic_string |-> Arg(kw, "logic_string", default_logic_string)]

\* A plausible slip: the tests are made on the value as given, without lower().
NormalizeCaseSensitive(service_type) ==
    IF In(str_image, service_type) THEN simpleimageaccess
    ELSE IF In(str_spectr, service_type) THEN simplespectralaccess
    ELSE IF In(str_cone, service_type) THEN simpleconesearch
    ELSE service_type

\* core.py:136-141
NormalizeServiceType(service_type) ==
    IF In(str_image, lower(service_type)) THEN simpleimageaccess
    ELSE IF In(str_spectr, lower(service_type)) THEN simplespectralaccess
    ELSE IF In(str_cone, lower(service_type)) THEN simpleconesearch
    ELSE service_type

\* A plausible slip: the source predicate is appended first.
wheresSourceFirst(service_type, source) ==
    (IF source # <<>> THEN <<ivoid_open \o source \o ivoid_close>> ELSE <<>>)
    \o (IF service_type # <<>>
        THEN <<cap_type_open \o service_type \o cap_type_close>> ELSE <<>>)

\* core.py:152-156.  `x is not ""` is an identity test; the empty str is one
\* object in CPython 3 and every non-empty str is another object, so for str
\* arguments it decides as x != "".
wheres(service_type, source) ==
    (IF service_type # <<>>
     THEN <<cap_type_open \o service_type \o cap_type_close>> ELSE <<>>)
    \o (IF source # <<>> THEN <<ivoid_open \o source \o ivoid_close>> ELSE <<>>)

\* A plausible slip: the predicates are joined by the default, not by logic_string.
query_whereDefaultJoin(logic_string, ws) == str_where \o join(default_logic_string, ws)

\* core.py:150 and 158
query_where(logic_string, ws) == str_where \o join(logic_string, ws)

\* A plausible slip: the clause is formatted whether or not order_by is set.
query_orderAlways(order_by) == str_order_by \o order_by

\* core.py:160-162
query_order(order_by) == IF order_by # <<>> THEN str_order_by \o order_by ELSE <<>>

\* core.py:110-166
_build_adql(kw) ==
    LET a            == ParseKwargs(kw)
        service_type == NormalizeServiceType(a.service_type)
    IN  query_retcols
        \o query_where(a.logic_string, wheres(service_type, a.source))
        \o query_order(a.order_by)

----------------------------------------------------------------------------
(* The arguments the builder is run on.                                    *)

in_Image ==
    <<"I", "m", "a", "g", "e">>

in_Spectra ==
    <<"S", "p", "e", "c", "t", "r", "a">>

in_CONE ==
    <<"C", "O", "N", "E">>

in_TAP ==
    <<"T", "A", "P">>

in_tap ==
    <<"t", "a", "p">>

in_cone_image ==
    <<"c", "o", "n", "e", " ", "i", "m", "a", "g", "e">>

in_spectrcone ==
    <<"s", "p", "e", "c", "t", "r", "c", "o", "n", "e">>

in_stsci ==
    <<"s", "t", "s", "c", "i">>

in_quote ==
    <<"o", "'", "b">>

in_short_name ==
    <<"s", "h", "o", "r", "t", "_", "n", "a", "m", "e">>

in_and ==
    <<" ", "a", "n", "d", " ">>

in_or ==
    <<" ", "o", "r", " ">>

in_OR ==
    <<"O", "R">>

in_galaxy ==
    <<"g", "a", "l", "a", "x", "y">>

in_optical ==
    <<"o", "p", "t", "i", "c", "a", "l">>

in_x ==
    <<"x">>

in_OtherUrl ==
    <<"h", "t", "t", "p", ":", "/", "/", "t", "a", "p", ".", "e", "x", "a", "m", "p", "l", "e",
      "/", "r", "e", "g">>

Keys == {"service_type", "keyword", "waveband", "source", "order_by", "logic_string", "foo"}

ServiceTypes == {<<>>, in_Image, in_Spectra, in_CONE, in_tap, in_TAP, in_cone_image, in_spectrcone}
Sources      == {<<>>, in_stsci, in_quote}
OrderBys     == {<<>>, in_short_name}
LogicStrings == {in_and, in_or, in_OR}
Keywords     == {in_galaxy}
Wavebands    == {in_optical}
Foos         == {in_x}

\* a key is left out ({}) or passed with one value of V ({v})
Opt(V) == {{}} \cup {{v} : v \in V}

\* the dict of a choice: the keys that were passed, each with its value
Pack(r) == [k \in {k \in DOMAIN r : r[k] # {}} |-> CHOOSE v \in r[k] : TRUE]

FilterSets ==
    {Pack(r) : r \in [service_type : Opt(ServiceTypes), keyword : Opt(Keywords),
                      waveband : Opt(Wavebands), source : Opt(Sources),
                      order_by : Opt(OrderBys), logic_string : Opt(LogicStrings),
                      foo : Opt(Foos)]}

\* the choices of the keys the claims call ignored
IgnoredParts ==
    {Pack(r) : r \in [keyword : Opt(Keywords), waveband : Opt(Wavebands), foo : Opt(Foos)]}

\* the dict kw with its keyword, waveband and foo entries replaced by those of e
WithIgnored(kw, e) ==
    [k \in (DOMAIN kw \ {"keyword", "waveband", "foo"}) \cup DOMAIN e |->
        IF k \in DOMAIN e THEN e[k] ELSE kw[k]]

\* query() called with no keyword argument
NoKwargs == [k \in {} |-> <<>>]

\* the filter sets the query calls of Spec are made with
QueryFilterSets ==
    { NoKwargs,
      [k \in {"service_type"} |-> in_Image],
      [k \in {"source", "keyword"} |-> IF k = "source" THEN in_stsci ELSE in_galaxy],
      [k \in {"service_type", "source", "order_by"} |->
          IF k = "service_type" THEN in_CONE
          ELSE IF k = "source" THEN in_stsci ELSE in_short_name] }

ConfigUrls == {DefaultUrl, in_OtherUrl}

Objects == {"Registry", "r1"}

MaxCalls == 2
MaxRows == 2

----------------------------------------------------------------------------
(* RegistryClass.__init__ and RegistryClass.query, core.py:73-108.         *)

\* core.py:77: the URL is computed once, from the option's value at construction
RegistryClass__init__(registry_tap_url) == registry_tap_url \o sync_suffix

\* A plausible slip: the query parameter carries no built string.
tap_paramsNoQuery(a) == [request |-> "doQuery", lang |-> "ADQL", query |-> <<>>]

\* core.py:96-100
tap_params(a) == [request |-> "doQuery", lang |-> "ADQL", query |-> a]

\* core.py:93-102: the arguments self._request is called with
RequestArgs(o, a) == [method |-> "POST", url |-> sync_url[o], data |-> tap_params(a)]

NoContent == [wellformed |-> FALSE, fields |-> <<>>, rows |-> <<>>]

\* a VOTABLE with n rows and the fields a (char, or int) and b (int)
Votable(n, achar) ==
    [wellformed |-> TRUE,
     fields |-> <<[name |-> "a", datatype |-> IF achar THEN "char" ELSE "int"],
                  [name |-> "b", datatype |-> "int"]>>,
     rows   |-> [i \in 1..n |-> <<i, 10 * i>>]]

Bodies == {NoContent} \cup {Votable(n, c) : n \in 0..MaxRows, c \in BOOLEAN}

\* BaseQuery._request sends one POST and gives the response back, or raises for a
\* non-2xx status, a timeout or a connection error.
RequestOutcomes ==
    {[kind |-> "response", content |-> b, error |-> "none"] : b \in Bodies}
    \cup {[kind |-> "error", content |-> NoContent, error |-> e] :
             e \in {"status", "timeout", "connection"}}

\* A plausible slip: the failure is swallowed and the decoder runs all the same.
query_after_requestSwallow(oc) == "decode"

\* core.py:102-106: no try/except around self._request, so what it raises leaves
\* query() at line 102; otherwise line 106 runs
query_after_request(oc) == IF oc.kind = "error" THEN "raised" ELSE "decode"

NoResult == [kind |-> "none"]
Raised(e) == [kind |-> "raise", error |-> e]

\* core.py:194, Table.read on the VOTABLE: the first table's fields and rows; the
\* values of a char field are stored as bytes (core.py:196-198).  A payload that
\* is no VOTABLE makes the reader raise.
Table_read(content) ==
    IF ~content.wellformed THEN Raised("decode")
    ELSE [kind     |-> "table",
          colnames |-> [j \in 1..Len(content.fields) |-> content.fields[j].name],
          rows     |-> [i \in 1..Len(content.rows) |->
                          [j \in 1..Len(content.fields) |->
                             [type  |-> IF content.fields[j].datatype = "char"
                                        THEN "bytes" ELSE "int",
                              value |-> content.rows[i][j]]]]]

\* core.py:169-201: the reader's table is returned as read; the conversion of
\* bytes values to str (core.py:199) is commented out
_astropy_table_from_votable_response(response) == Table_read(response.content)

----------------------------------------------------------------------------
(* The client: configuration changes, construction and query calls.        *)

NoOutcome == [kind |-> "none", content |-> NoContent, error |-> "none"]

\* importing astroquery.vo: conf = Conf() (__init__.py:20), whose option holds the
\* default or the configuration file's value, then Registry = RegistryClass()
\* (core.py:205)
Init ==
    /\ conf_url \in ConfigUrls
    /\ sync_url = [o \in {"Registry"} |-> RegistryClass__init__(conf_url)]
    /\ ncalls = 0
    /\ pc = "idle"
    /\ self = "none"
    /\ kwargs = NoKwargs
    /\ adql = <<>>
    /\ posts = <<>>
    /\ outcome = NoOutcome
    /\ trace = <<>>
    /\ result = NoResult

\* conf.registry_tap_url = u, __init__.py:16-18
SetConf(u) ==
    /\ pc = "idle"
    /\ u # conf_url
    /\ conf_url' = u
    /\ UNCHANGED <<sync_url, pc, self, kwargs, adql, posts, outcome, trace, result, ncalls>>

\* o = RegistryClass(), core.py:73-77
Construct(o) ==
    /\ pc = "idle"
    /\ o \notin DOMAIN sync_url
    /\ sync_url' = [p \in DOMAIN sync_url \cup {o} |->
                      IF p = o THEN RegistryClass__init__(conf_url) ELSE sync_url[p]]
    /\ UNCHANGED <<conf_url, pc, self, kwargs, adql, posts, outcome, trace, result, ncalls>>

\* o.query(**kw) up to core.py:100: the string is built
QueryBuild(o, kw) ==
    /\ pc = "idle"
    /\ ncalls < MaxCalls
    /\ o \in DOMAIN sync_url
    /\ self' = o
    /\ kwargs' = kw
    /\ adql' = _build_adql(kw)
    /\ trace' = <<"build">>
    /\ pc' = "request"
    /\ ncalls' = ncalls + 1
    /\ UNCHANGED <<conf_url, sync_url, posts, outcome, result>>

\* core.py:102: the POST is sent and ends as oc
QueryRequest(oc) ==
    /\ pc = "request"
    /\ posts' = Append(posts, RequestArgs(self, adql))
    /\ outcome' = oc
    /\ trace' = Append(trace, "post")
    /\ pc' = query_after_request(oc)
    /\ result' = IF query_after_request(oc) = "raised" THEN Raised(oc.error) ELSE result
    /\ UNCHANGED <<conf_url, sync_url, self, kwargs, adql, ncalls>>

\* core.py:106-108: the response is decoded and the table returned
QueryDecode ==
    /\ pc = "decode"
    /\ trace' = Append(trace, "decode")
    /\ result' = _astropy_table_from_votable_response(outcome)
    /\ pc' = IF result'.kind = "table" THEN "returned" ELSE "raised"
    /\ UNCHANGED <<conf_url, sync_url, self, kwargs, adql, posts, outcome, ncalls>>

\* the call has ended; its locals are gone
QueryEnd ==
    /\ pc \in {"returned", "raised"}
    /\ pc' = "idle"
    /\ self' = "none"
    /\ kwargs' = NoKwargs
    /\ adql' = <<>>
    /\ posts' = <<>>
    /\ outcome' = NoOutcome
    /\ trace' = <<>>
    /\ result' = NoResult
    /\ UNCHANGED <<conf_url, sync_url, ncalls>>

Next ==
    \/ \E u \in ConfigUrls : SetConf(u)
    \/ \E o \in Objects : Construct(o)
    \/ \E o \in Objects, kw \in QueryFilterSets : QueryBuild(o, kw)
    \/ \E oc \in RequestOutcomes : QueryRequest(oc)
    \/ QueryDecode
    \/ QueryEnd

Spec == Init /\ [][Next]_vars

----------------------------------------------------------------------------
(* The builder alone, on every filter set of FilterSets.                   *)

InitBuild ==
    /\ conf_url = DefaultUrl
    /\ sync_url = [o \in {"Registry"} |-> RegistryClass__init__(conf_url)]
    /\ ncalls = 0
    /\ pc = "start"
    /\ self = "Registry"
    /\ kwargs \in FilterSets
    /\ adql = <<>>
    /\ posts = <<>>
    /\ outcome = NoOutcome
    /\ trace = <<>>
    /\ result = NoResult

\* adql = self._build_adql(**kwargs), core.py:83
BuildAdql ==
    /\ pc = "start"
    /\ adql' = _build_adql(kwargs)
    /\ pc' = "built"
    /\ UNCHANGED <<conf_url, sync_url, self, kwargs, posts, outcome, trace, result, ncalls>>

NextBuild == BuildAdql

SpecBuild == InitBuild /\ [][NextBuild]_vars

----------------------------------------------------------------------------
(* What the claims are stated with.                                        *)

kw_where ==
    <<"w", "h", "e", "r", "e">>

kw_cap_type_eq ==
    <<"c", "a", "p", "_", "t", "y", "p", "e", "=">>

kw_ivoid_like ==
    <<"i", "v", "o", "i", "d", " ", "l", "i", "k", "e">>

kw_order_by ==
    <<"o", "r", "d", "e", "r", " ", "b", "y">>

txt_and ==
    <<" ", "a", "n", "d", " ">>

IsPrefix(p, s) == Len(p) <= Len(s) /\ SubSeq(s, 1, Len(p)) = p
IsSuffix(p, s) == Len(p) <= Len(s) /\ SubSeq(s, Len(s) - Len(p) + 1, Len(s)) = p

\* the places where p occurs in s
Occurrences(p, s) == {i \in 1..(Len(s) - Len(p) + 1) : SubSeq(s, i, i + Len(p) - 1) = p}

\* the places where p occurs in s, in any letter case
OccurrencesCI(p, s) ==
    {i \in 1..(Len(s) - Len(p) + 1) :
        \A j \in 1..Len(p) : LowerChar(s[i + j - 1]) = LowerChar(p[j])}

FirstAt(p, s) == CHOOSE i \in Occurrences(p, s) : \A j \in Occurrences(p, s) : i <= j

\* the arguments of the call, as the caller gave them
given_service_type == Arg(kwargs, "service_type", <<>>)
given_source       == Arg(kwargs, "source", <<>>)
given_order_by     == Arg(kwargs, "order_by", <<>>)

\* C1: a call with neither service_type nor source set returns a string with no
\* WHERE keyword, in any letter case.
C1_NoWhereWithoutPredicate ==
    (pc = "built" /\ given_service_type = <<>> /\ given_source = <<>>)
        => OccurrencesCI(kw_where, adql) = {}

\* the canonical value the claim names for a service_type
C2_Canonical(s) ==
    IF OccurrencesCI(str_image, s) # {} THEN simpleimageaccess
    ELSE IF OccurrencesCI(str_spectr, s) # {} THEN simplespectralaccess
    ELSE IF OccurrencesCI(str_cone, s) # {} THEN simpleconesearch
    ELSE s

\* C2: the value the builder uses for service_type is simpleimageaccess when the
\* given text contains "image" in any letter case, else simplespectralaccess when
\* it contains "spectr", else simpleconesearch when it contains "cone", else the
\* text as given, case unchanged; the empty string stays empty (no predicate).
C2_ServiceTypeNormalized ==
    pc = "built" =>
        IF given_service_type # <<>>
        THEN IsPrefix(query_retcols \o str_where \o cap_type_open
                        \o C2_Canonical(given_service_type) \o cap_type_close, adql)
        ELSE Occurrences(kw_cap_type_eq, adql) = {}

\* a value holding "cone" before "image" was normalized by the first test, image
C2_Witness ==
    /\ pc = "built"
    /\ given_service_type = in_cone_image
    /\ Occurrences(cap_type_open \o simpleimageaccess \o cap_type_close, adql) # {}

\* the two predicates of a call, as the claims describe them
cap_predicate   == cap_type_open \o C2_Canonical(given_service_type) \o cap_type_close
ivoid_predicate == ivoid_open \o given_source \o ivoid_close

\* C3: the query holds a cap_type equality predicate (on the normalized value) iff
\* service_type is non-empty, and ivoid like '%<source>%' iff source is non-empty;
\* the cap_type predicate ends before the ivoid predicate starts; the values are
\* inserted as given, unescaped.
C3_PredicatesPresent ==
    pc = "built" =>
        /\ (given_service_type # <<>>) <=> (Occurrences(kw_cap_type_eq, adql) # {})
        /\ given_service_type # <<>> => Cardinality(Occurrences(cap_predicate, adql)) = 1
        /\ (given_source # <<>>) <=> (Occurrences(kw_ivoid_like, adql) # {})
        /\ given_source # <<>> => Cardinality(Occurrences(ivoid_predicate, adql)) = 1
        /\ (given_service_type # <<>> /\ given_source # <<>>) =>
              FirstAt(cap_predicate, adql) + Len(cap_predicate)
                 <= FirstAt(ivoid_predicate, adql)

\* only source is set, to a value with a quote in it: the ivoid predicate carries
\* the value unescaped and there is no cap_type predicate
C3_Witness ==
    /\ pc = "built"
    /\ given_service_type = <<>>
    /\ given_source = in_quote
    /\ Occurrences(ivoid_open \o in_quote \o ivoid_close, adql) # {}
    /\ Occurrences(kw_cap_type_eq, adql) = {}

\* the joining text of a call: the logic_string given, else " and "
joining_text == Arg(kwargs, "logic_string", txt_and)

\* the dict kw with logic_string left out (l = {}) or passed as the value in l
WithLogic(kw, l) ==
    [k \in (DOMAIN kw \ {"logic_string"}) \cup (IF l = {} THEN {} ELSE {"logic_string"}) |->
        IF k = "logic_string" THEN CHOOSE v \in l : TRUE ELSE kw[k]]

\* C4: with both service_type and source set, the WHERE clause is the cap_type
\* predicate, the logic_string value as given (" and " when none is given), the
\* ivoid predicate, with nothing else between them; with fewer than two
\* predicates the logic_string value is not put into the output: the output is
\* the same whatever logic_string is, and holds none of the joining texts.
C4_JoinedByLogicString ==
    pc = "built" =>
        IF given_service_type # <<>> /\ given_source # <<>>
        THEN /\ IsPrefix(query_retcols \o str_where \o cap_predicate \o joining_text
                           \o ivoid_predicate, adql)
             /\ Cardinality(Occurrences(cap_predicate \o joining_text \o ivoid_predicate,
                                        adql)) = 1
        ELSE /\ \A l \in Opt(LogicStrings) : _build_adql(WithLogic(kwargs, l)) = adql
             /\ Occurrences(joining_text, adql) = {}

\* both predicates joined by a logic_string given in upper case, with no spaces
C4_Witness ==
    /\ pc = "built"
    /\ given_service_type = in_CONE
    /\ given_source = in_stsci
    /\ "logic_string" \in DOMAIN kwargs
    /\ kwargs["logic_string"] = in_OR
    /\ Occurrences(cap_type_open \o simpleconesearch \o cap_type_close \o in_OR
                     \o ivoid_open \o in_stsci \o ivoid_close, adql) # {}

\* the text of a call up to the end of its WHERE part
where_part ==
    query_retcols \o str_where
      \o (IF given_service_type # <<>> THEN cap_predicate ELSE <<>>)
      \o (IF given_service_type # <<>> /\ given_source # <<>> THEN joining_text ELSE <<>>)
      \o (IF given_source # <<>> THEN ivoid_predicate ELSE <<>>)

\* C5: with order_by set the query ends with "order by <order_by>", which occurs
\* once and follows the WHERE part directly; with order_by empty or not given the
\* query holds no ORDER BY, in any letter case, and ends with its WHERE part.
C5_OrderByClause ==
    pc = "built" =>
        IF given_order_by # <<>>
        THEN /\ IsSuffix(kw_order_by \o <<" ">> \o given_order_by, adql)
             /\ Cardinality(OccurrencesCI(kw_order_by, adql)) = 1
             /\ adql = where_part \o kw_order_by \o <<" ">> \o given_order_by
        ELSE /\ OccurrencesCI(kw_order_by, adql) = {}
             /\ adql = where_part

\* a call with a predicate and order_by set
C5_Witness ==
    /\ pc = "built"
    /\ given_source = in_stsci
    /\ given_order_by = in_short_name
    /\ IsSuffix(kw_order_by \o <<" ">> \o in_short_name, adql)

\* C6: the string depends only on service_type, source, order_by and
\* logic_string: every filter set that differs from the call's only in keyword,
\* waveband and unrecognized keys builds the same string.
C6_IgnoredKeysIgnored ==
    pc = "built" => \A e \in IgnoredParts : _build_adql(WithIgnored(kwargs, e)) = adql

\* a call passing keyword, waveband and an unrecognized key, whose string is the
\* one built without them
C6_Witness ==
    /\ pc = "built"
    /\ {"keyword", "waveband", "foo"} \subseteq DOMAIN kwargs
    /\ given_source = <<>>
    /\ adql = _build_adql(WithIgnored(kwargs, NoKwargs))

\* C7: a query call builds, then posts, then decodes: it sends one POST, whose
\* form parameters are request=doQuery, lang=ADQL and query = the string built
\* from the call's filters, never a second one, and a call that returns has
\* decoded that response once and returns the decoder's table.
C7_BuildSendDecode ==
    /\ IsPrefix(trace, <<"build", "post", "decode">>)
    /\ Len(posts) = (IF Len(trace) >= 2 THEN 1 ELSE 0)
    /\ \A i \in 1..Len(posts) :
          /\ posts[i].method = "POST"
          /\ posts[i].data =
                [request |-> "doQuery", lang |-> "ADQL", query |-> _build_adql(kwargs)]
    /\ pc = "returned" =>
          /\ trace = <<"build", "post", "decode">>
          /\ outcome.kind = "response"
          /\ result = _astropy_table_from_votable_response(outcome)
          /\ result.kind = "table"

\* a call with two predicates has returned a table after one POST
C7_Witness ==
    /\ pc = "returned"
    /\ given_service_type = in_CONE
    /\ given_source = in_stsci
    /\ Len(posts) = 1
    /\ trace = <<"build", "post", "decode">>
    /\ result.kind = "table"

\* C8: when the POST ends in a transport failure (a non-2xx status, a timeout, a
\* connection error) the call ends with that error raised to its caller: the
\* decoder has not run, no table is returned, and one POST was sent.
C8_TransportFailurePropagates ==
    outcome.kind = "error" =>
        /\ pc = "raised"
        /\ result = Raised(outcome.error)
        /\ trace = <<"build", "post">>
        /\ Len(posts) = 1

\* a call whose POST ended with a non-2xx status
C8_Witness ==
    /\ outcome.kind = "error"
    /\ outcome.error = "status"
    /\ pc = "raised"
    /\ result.kind = "raise"

\* C9: the table returned for a well-formed response has the response's rows and
\* column names, and none of its cells holds a byte-string.
C9_NoBytesCellReturned ==
    pc = "returned" =>
        /\ Len(result.rows) = Len(outcome.content.rows)
        /\ result.colnames = [j \in 1..Len(outcome.content.fields) |->
                                 outcome.content.fields[j].name]
        /\ \A i \in 1..Len(result.rows) : \A j \in 1..Len(result.rows[i]) :
              /\ result.rows[i][j].type # "bytes"
              /\ result.rows[i][j].value = outcome.content.rows[i][j]

\* C10: every POST of a call goes to the value the registry_tap_url option holds
\* at the time of the call, followed by "/sync".
C10_PostToCurrentOption ==
    \A i \in 1..Len(posts) : posts[i].url = conf_url \o sync_suffix

====
